---- MODULE Spec2Model ----
(***************************************************************************)
(* Ciphered backend: the Express wiring (middleware, rate limiter, route   *)
(* table, catch-all), the endpoint handlers over the three SQLite tables,  *)
(* the deferred chat-deletion timers and CustomRateLimiter.                *)
(*                                                                         *)
(* Four programs of the repository are modelled, selected by `variant`:    *)
(*   "index"   src/backend/index.js   + custom_modules/server              *)
(*   "part007" src/unnamed/part_007   + custom_modules/server (rate_limit) *)
(*   "config"  modules/config (Module.load) + modules/server               *)
(*   "part006" src/unnamed/part_006 (monolithic Server)                    *)
(* better-sqlite3 is synchronous, so a handler runs to completion inside   *)
(* one event-loop turn: one request is one atomic step.                    *)
(***************************************************************************)
EXTENDS Integers, Sequences, FiniteSets, TLC

\* ------------------------------------------------------------------ bounds
MaxChats    == 2      \* rows ever inserted into chats
MaxUsers    == 2      \* rows ever inserted into users
MaxSessions == 2      \* rows ever inserted into sessions
MaxTicks    == 2      \* clock steps taken by the server clock
MaxWindow   == 2      \* largest windowMs tried for CustomRateLimiter
MaxLimit    == 2      \* largest max tried for CustomRateLimiter
MaxOver     == 2      \* requests counted beyond max before the model stops
MaxRlClock  == 5      \* last clock value of the limiter runs
SmallRows   == 1      \* rows per table when all routes are exercised together
SmallTicks  == 2      \* clock steps when all routes are exercised together
MaxBootRows == 1      \* rows a table of the database file holds at process start
MaxInflight == 2      \* requests that are in flight at the same time

\* ------------------------------------------------------- program constants
ChatTimeoutMs   == 60000   \* setTimeout(..., 60000)
TickMs          == 40000   \* clock step of the server model: a callback that
                           \* is due between two steps runs at the later one
DeployedWindow  == 60000   \* part_007: windowMs: 1 * 60 * 1000
DeployedMax     == 5       \* part_007: max: 5

Variants == {"index", "part007", "config", "part006"}
Clients  == {"ip1", "ip2"}
KeyVals  == {"a", "b"}
Contents == {"a", "x"}
Idents   == {"i1", "i2"}
Names    == {"n"}
Fields   == {"key", "content", "identifier", "name", "userId"}
StrFields == {"key", "content", "identifier", "name"}

VARIABLES
    variant,    \* which program is running
    pc,         \* position of the start-up script
    stack,      \* the Express application stack (layers in registration order)
    limiter,    \* this.limiter of custom_modules Server: [set, windowMs, max]
    requests,   \* CustomRateLimiter.requests: ip -> [count, timestamp]
    now,        \* Date.now()
    users, sessions, chats,   \* the three tables
    autoinc,    \* AUTOINCREMENT counters of the three tables
    timers,     \* pending setTimeout callbacks, in scheduling order
    priv,       \* which private fields of Server are set (#_endpoints, ...)
    rl,         \* outcome of the most recent CustomRateLimiter.rateLimit call
    run,        \* per client: the requests seen since its entry was created
    last,       \* what happened to the most recent request
    hist,       \* history of the run, per key (observation only)
    budget,     \* how far the run is explored: rows per table, clock steps
    boot,       \* the database file's tables and the pending parseExec calls
    fault,      \* the most recent storage call that threw, and what came of it
    flight      \* requests that have arrived and are not yet handled

vars == <<variant, pc, stack, limiter, requests, now, users, sessions, chats,
          autoinc, timers, priv, rl, run, last, hist, budget, boot, fault,
          flight>>

Max2_Second(a, b) == b

\* Math.max(a, b)
Max2(a, b) == IF a > b THEN a ELSE b
Min2(a, b) == IF a < b THEN a ELSE b

\* ------------------------------------------------------------ SQL statements
\* INSERT INTO chats (key, content) VALUES (?, ?)
InsertChat(tbl, id, key, content) ==
    tbl \cup {[id |-> id, key |-> key, content |-> content]}

\* SELECT * FROM chats WHERE key = ?   (.all)
SelectChats(tbl, key) == {c \in tbl : c.key = key}

DeleteChats_All(tbl, key) == {}

\* DELETE FROM chats WHERE key = ?
DeleteChats(tbl, key) == {c \in tbl : c.key # key}

SelectSessions_None(tbl, key) == {}

\* SELECT * FROM sessions WHERE key = ?
SelectSessions(tbl, key) == {s \in tbl : s.key = key}

DeleteSessions_Kept(tbl, key) == tbl

\* DELETE FROM sessions WHERE key = ?
DeleteSessions(tbl, key) == {s \in tbl : s.key # key}

\* INSERT INTO sessions (userId, key) VALUES (?, ?)
InsertSession(tbl, id, userId, key) ==
    tbl \cup {[id |-> id, userId |-> userId, key |-> key]}

SelectUsers_None(tbl, identifier) == {}

\* SELECT * FROM users WHERE identifier = ?
SelectUsers(tbl, identifier) == {u \in tbl : u.identifier = identifier}

SelectUsersById_AnyId(tbl, identifier, id) ==
    {u \in tbl : u.identifier = identifier}

\* SELECT * FROM users WHERE identifier = ? AND id = ?
SelectUsersById(tbl, identifier, id) ==
    {u \in tbl : u.identifier = identifier /\ u.id = id}

\* SELECT * FROM users WHERE id = ?
SelectUserId(tbl, id) == {u \in tbl : u.id = id}

\* INSERT INTO users (name, identifier) VALUES (?, ?)
InsertUser(tbl, id, name, identifier) ==
    tbl \cup {[id |-> id, name |-> name, identifier |-> identifier]}

\* Statement.get: the first row (lowest rowid) of a non-empty result
Get(rows) == CHOOSE r \in rows : \A q \in rows : r.id <= q.id

\* ------------------------------------------------------------------ schemas
keySchema        == [required |-> {"key"}, optional |-> {}]
createUserSchema == [required |-> {"name", "identifier"}, optional |-> {}]
getUserSchema    == [required |-> {"identifier"}, optional |-> {}]
inviteSchema     == [required |-> {"userId", "key", "identifier"}, optional |-> {}]
inviteSchemaCfg  == [required |-> {"key", "identifier"}, optional |-> {}]
messageSchema    == [required |-> {"content", "key"}, optional |-> {"userId"}]

\* Joi.object(...).validate(body): every required field present, no unknown
\* field, and no present string field empty.
Validate(schema, body) ==
    /\ schema.required \subseteq body.present
    /\ body.present \subseteq (schema.required \cup schema.optional)
    /\ \A f \in body.present \cap StrFields : body[f] # ""

\* ------------------------------------------------------------ request bodies
\* req.body after express.json(): the fields present and their values.
\* "-" (0 for userId) stands for a field the client did not send.
Body(k, c, i, n, u) ==
    [present |-> {f \in StrFields :
                     (f = "key" /\ k # "-") \/ (f = "content" /\ c # "-")
                     \/ (f = "identifier" /\ i # "-") \/ (f = "name" /\ n # "-")}
                 \cup (IF u # 0 THEN {"userId"} ELSE {}),
     key        |-> IF k = "-" THEN "" ELSE k,
     content    |-> IF c = "-" THEN "" ELSE c,
     identifier |-> IF i = "-" THEN "" ELSE i,
     name       |-> IF n = "-" THEN "" ELSE n,
     userId     |-> u]

NoBody == Body("-", "-", "-", "-", 0)

\* The bodies that give every field of F a proper value.
FullBodies(F) ==
    {Body(k, c, i, n, u) :
        k \in IF "key" \in F THEN KeyVals ELSE {"-"},
        c \in IF "content" \in F THEN Contents ELSE {"-"},
        i \in IF "identifier" \in F THEN Idents ELSE {"-"},
        n \in IF "name" \in F THEN Names ELSE {"-"},
        u \in IF "userId" \in F THEN 1..MaxUsers ELSE {0}}

SampleBody(F) ==
    Body(IF "key" \in F THEN "a" ELSE "-", IF "content" \in F THEN "x" ELSE "-",
         IF "identifier" \in F THEN "i1" ELSE "-", IF "name" \in F THEN "n" ELSE "-",
         IF "userId" \in F THEN 1 ELSE 0)

Without(b, f) ==
    [b EXCEPT !.present = @ \ {f}, ![f] = IF f = "userId" THEN 0 ELSE ""]

Emptied(b, f) == [b EXCEPT ![f] = ""]

\* b with one more field, which no schema holding F knows
WithUnknown(b, F) ==
    IF "name" \in F THEN [b EXCEPT !.present = @ \cup {"content"}, !.content = "x"]
    ELSE [b EXCEPT !.present = @ \cup {"name"}, !.name = "n"]

\* Bodies a schema over the fields F rejects: nothing sent, one field not
\* sent, one string sent empty, one unknown field sent.
BrokenBodies(F) ==
    {NoBody} \cup {Without(SampleBody(F), f) : f \in F}
             \cup {Emptied(SampleBody(F), f) : f \in F \cap StrFields}
             \cup {WithUnknown(SampleBody(F), F)}

\* The fields of the schema of a route of variant v
FieldsFor(v, path) ==
    CASE path = "/send"    -> {"key", "content"}
      [] path = "/receive" -> {"key"}
      [] path = "/claim"   -> {"key"}
      [] path = "/user"    -> {"identifier"}
      [] path = "/invite"  -> {"userId", "key", "identifier"}
      [] path = "/create"  -> IF v = "config" THEN {"key", "identifier"}
                              ELSE {"name", "identifier"}
      [] path = "/signup"  -> {"name", "identifier"}
      [] OTHER -> {}

\* The bodies tried on a route; /send also gets its optional userId once.
BodiesFor(v, method, path) ==
    IF method # "post" THEN {NoBody}
    ELSE FullBodies(FieldsFor(v, path)) \cup BrokenBodies(FieldsFor(v, path))
         \cup (IF path = "/send"
               THEN {[SampleBody(FieldsFor(v, path)) EXCEPT
                        !.present = @ \cup {"userId"}, !.userId = 1]}
               ELSE {})

\* ------------------------------------------------------------------ handlers
\* What a handler did: the response it wrote (status 0: no response was
\* written), the tables after it, and the timers it scheduled.
Reply(status, valid, error) ==
    [status |-> status, valid |-> valid, error |-> error,
     users |-> users, sessions |-> sessions, chats |-> chats,
     autoinc |-> autoinc, scheduled |-> <<>>, rows |-> {}, userId |-> 0]

\* res.status(StatusCodes).send(...): the status is the StatusCodes object, not
\* a number, so writing the response throws. Behind the synchronous wrapper of
\* custom_modules/server Express answers 500; behind the async wrapper of
\* modules/server the rejection is either answered 500 or left unanswered.
SendInvalidStatus(v, answered) ==
    CASE v \in {"index", "part006"} -> 400
      [] v = "part007" -> 500
      [] OTHER -> IF answered THEN 500 ELSE 0

\* The argument of the deferred DELETE FROM chats WHERE key = ?
TimerArg(key, content) == content

root_Wiping(v, body, answered) == [Reply(200, TRUE, "") EXCEPT !.chats = {}]

\* get["/"]
root(v, body, answered) == Reply(200, TRUE, "")

send_TwoTimers(v, body, answered) ==
    IF ~Validate(messageSchema, body)
    THEN Reply(SendInvalidStatus(v, answered), FALSE, "Invalid request")
    ELSE LET id == autoinc.chats + 1
             t  == [id |-> id, due |-> now + ChatTimeoutMs,
                    arg |-> TimerArg(body.key, body.content),
                    sendKey |-> body.key, sendContent |-> body.content]
         IN [Reply(200, TRUE, "") EXCEPT
               !.chats = InsertChat(chats, id, body.key, body.content),
               !.autoinc = [autoinc EXCEPT !.chats = id],
               !.scheduled = <<t, t>>]

\* post["/send"]
send(v, body, answered) ==
    IF ~Validate(messageSchema, body)
    THEN Reply(SendInvalidStatus(v, answered), FALSE, "Invalid request")
    ELSE LET id == autoinc.chats + 1 IN
         [Reply(200, TRUE, "") EXCEPT
            !.chats = InsertChat(chats, id, body.key, body.content),
            !.autoinc = [autoinc EXCEPT !.chats = id],
            !.scheduled = <<[id |-> id, due |-> now + ChatTimeoutMs,
                             arg |-> TimerArg(body.key, body.content),
                             sendKey |-> body.key,
                             sendContent |-> body.content]>>]

\* post["/receive"]
receive(v, body, answered) ==
    IF ~Validate(keySchema, body) THEN Reply(400, FALSE, "Invalid request")
    ELSE LET found == SelectChats(chats, body.key) IN
         IF found = {} THEN Reply(404, TRUE, "Not Found")
         ELSE [Reply(200, TRUE, "") EXCEPT
                 !.rows = found,
                 !.chats = DeleteChats(chats, body.key)]

user_Deleting(v, body, answered) ==
    IF ~Validate(getUserSchema, body) THEN Reply(400, FALSE, "Invalid request")
    ELSE LET found == SelectUsers(users, body.identifier) IN
         IF found = {} THEN Reply(404, TRUE, "Not Found")
         ELSE [Reply(200, TRUE, "") EXCEPT !.rows = {Get(found)},
                                          !.users = users \ found]

\* post["/user"]
user(v, body, answered) ==
    IF ~Validate(getUserSchema, body) THEN Reply(400, FALSE, "Invalid request")
    ELSE LET found == SelectUsers(users, body.identifier) IN
         IF found = {} THEN Reply(404, TRUE, "Not Found")
         ELSE [Reply(200, TRUE, "") EXCEPT !.rows = {Get(found)}]

\* post["/claim"]; the modules/config variant also resolves the owning user
claim(v, body, answered) ==
    IF ~Validate(keySchema, body) THEN Reply(400, FALSE, "Invalid request")
    ELSE LET found == SelectSessions(sessions, body.key) IN
         IF found = {} THEN Reply(404, TRUE, "Not Found")
         ELSE LET session == Get(found)
                  owner   == SelectUserId(users, session.userId) IN
              IF v = "config" /\ owner = {} THEN Reply(404, TRUE, "Not Found")
              ELSE [Reply(200, TRUE, "") EXCEPT
                      !.rows = IF v = "config" THEN {Get(owner)} ELSE {session},
                      !.sessions = DeleteSessions(sessions, body.key)]

invite_NoKeyCheck(v, body, answered) ==
    IF ~Validate(IF v = "config" THEN inviteSchemaCfg ELSE inviteSchema, body)
    THEN Reply(400, FALSE, "Invalid request")
    ELSE LET found == IF v = "config"
                      THEN SelectUsers(users, body.identifier)
                      ELSE SelectUsersById(users, body.identifier, body.userId)
         IN IF found = {} THEN Reply(409, TRUE, "Invalid session.")
            ELSE LET id     == autoinc.sessions + 1
                     userId == IF v = "config" THEN Get(found).id ELSE body.userId
                 IN [Reply(201, TRUE, "") EXCEPT
                       !.sessions = InsertSession(sessions, id, userId, body.key),
                       !.autoinc = [autoinc EXCEPT !.sessions = id]]

\* post["/invite"], and post["/create"] of modules/config (userId derived)
invite(v, body, answered) ==
    IF ~Validate(IF v = "config" THEN inviteSchemaCfg ELSE inviteSchema, body)
    THEN Reply(400, FALSE, "Invalid request")
    ELSE IF SelectSessions(sessions, body.key) # {}
         THEN Reply(409, TRUE, "Conflict")
         ELSE LET found == IF v = "config"
                           THEN SelectUsers(users, body.identifier)
                           ELSE SelectUsersById(users, body.identifier, body.userId)
              IN IF found = {} THEN Reply(409, TRUE, "Invalid session.")
                 ELSE LET id     == autoinc.sessions + 1
                          userId == IF v = "config" THEN Get(found).id ELSE body.userId
                      IN [Reply(201, TRUE, "") EXCEPT
                            !.sessions = InsertSession(sessions, id, userId, body.key),
                            !.autoinc = [autoinc EXCEPT !.sessions = id]]

\* Success status of user creation: 201 in index.js and part_006, OK (200) in
\* part_007 and in /signup of modules/config.
CreatedStatus(v) == IF v \in {"index", "part006"} THEN 201 ELSE 200

\* userId field of the user-creation success body: info.lastInsertRowid,
\* which /signup of modules/config does not send (0: no such field).
CreatedUserId(v, id) == IF v = "config" THEN 0 ELSE id

create_InsertFirst(v, body, answered) ==
    LET id == autoinc.users + 1
        inserted == [Reply(CreatedStatus(v), TRUE, "") EXCEPT
                       !.users = InsertUser(users, id, body.name, body.identifier),
                       !.autoinc = [autoinc EXCEPT !.users = id],
                       !.userId = CreatedUserId(v, id)]
    IN IF SelectUsers(users, body.identifier) # {} THEN Reply(409, TRUE, "Conflict")
       ELSE IF ~Validate(createUserSchema, body)
            THEN [inserted EXCEPT !.status = 400, !.valid = FALSE,
                                  !.error = "Invalid request", !.userId = 0]
            ELSE inserted

create_NoCheck(v, body, answered) ==
    IF ~Validate(createUserSchema, body) THEN Reply(400, FALSE, "Invalid request")
    ELSE LET id == autoinc.users + 1 IN
         [Reply(CreatedStatus(v), TRUE, "") EXCEPT
            !.users = InsertUser(users, id, body.name, body.identifier),
            !.autoinc = [autoinc EXCEPT !.users = id],
            !.userId = CreatedUserId(v, id)]

\* post["/create"], and post["/signup"] of modules/config
create(v, body, answered) ==
    IF ~Validate(createUserSchema, body) THEN Reply(400, FALSE, "Invalid request")
    ELSE IF SelectUsers(users, body.identifier) # {}
         THEN Reply(409, TRUE, "Conflict")
         ELSE LET id == autoinc.users + 1 IN
              [Reply(CreatedStatus(v), TRUE, "") EXCEPT
                 !.users = InsertUser(users, id, body.name, body.identifier),
                 !.autoinc = [autoinc EXCEPT !.users = id],
                 !.userId = CreatedUserId(v, id)]

Handle(h, v, body, answered) ==
    CASE h = "root"    -> root(v, body, answered)
      [] h = "send"    -> send(v, body, answered)
      [] h = "receive" -> receive(v, body, answered)
      [] h = "user"    -> user(v, body, answered)
      [] h = "claim"   -> claim(v, body, answered)
      [] h = "invite"  -> invite(v, body, answered)
      [] h = "create"  -> create(v, body, answered)

\* --------------------------------------------------------------- route table
Route(method, path, handler) ==
    [kind |-> "route", method |-> method, path |-> path, name |-> handler,
     status |-> 0]

\* server.endpoints / #config.endpoints / #bindEndpoints, in insertion order
endpoints(v) ==
    IF v = "config"
    THEN << Route("get", "/", "root"), Route("post", "/send", "send"),
            Route("post", "/receive", "receive"), Route("post", "/user", "user"),
            Route("post", "/claim", "claim"), Route("post", "/create", "invite"),
            Route("post", "/signup", "create") >>
    ELSE << Route("get", "/", "root"), Route("post", "/send", "send"),
            Route("post", "/receive", "receive"), Route("post", "/user", "user"),
            Route("post", "/claim", "claim"), Route("post", "/invite", "invite"),
            Route("post", "/create", "create") >>

Use(name) ==
    [kind |-> "use", method |-> "", path |-> "", name |-> name, status |-> 0]

\* #middleware() of custom_modules/server and part_006; #config.middleware
middleware(v) ==
    CASE v = "config" ->
           << Use("helmet"), Use("json"), Use("urlencoded"), Use("requestTime"),
              Use("removeHeaders") >>
      [] v = "part006" -> << Use("cors"), Use("json"), Use("urlencoded") >>
      [] OTHER -> << Use("cors"), Use("json"), Use("urlencoded") >>

\* Status of the catch-all: 405, but StatusCodes.NOT_ACCEPTABLE (406) in
\* #config.afterware.
CatchAllStatus(v) == IF v = "config" THEN 406 ELSE 405

\* The final app.use((_, res) => res.status(...).send({error: "Method Not Allowed"}))
afterware(v) ==
    [kind |-> "catchall", method |-> "", path |-> "", name |-> "afterware",
     status |-> CatchAllStatus(v)]

\* app.use((req, res, next) => this.limiter.rateLimit(req, res, next))
LimiterLayer ==
    [kind |-> "limiter", method |-> "", path |-> "", name |-> "rateLimit",
     status |-> 0]

\* app.use(rateLimit(config)) of modules/server: express-rate-limit
ExtLimiterLayer ==
    [kind |-> "extlimiter", method |-> "", path |-> "", name |-> "express-rate-limit",
     status |-> 0]

\* ------------------------------------------------------- CustomRateLimiter
Untracked == [tracked |-> FALSE, count |-> 0, timestamp |-> 0]

windowExpired_Swapped(t, timestamp, windowMs) == timestamp - t > windowMs

windowExpired_Always(t, timestamp, windowMs) == TRUE

\* now - data.timestamp > this.windowMs
windowExpired(t, timestamp, windowMs) == t - timestamp > windowMs

cleanupOldRequests_Never(reqs, t, windowMs) == reqs

cleanupOldRequests_Ge(reqs, t, windowMs) ==
    [ip \in Clients |->
        IF reqs[ip].tracked /\ t - reqs[ip].timestamp >= windowMs
        THEN Untracked ELSE reqs[ip]]

\* cleanupOldRequests(): delete every entry whose window is over at time t
cleanupOldRequests(reqs, t, windowMs) ==
    [ip \in Clients |->
        IF reqs[ip].tracked /\ windowExpired(t, reqs[ip].timestamp, windowMs)
        THEN Untracked ELSE reqs[ip]]

overLimit_Ge(requestCount, max) == requestCount >= max

\* requestCount > this.max
overLimit(requestCount, max) == requestCount > max

rateLimit_KeepCount(reqs, ip, t1, t2, windowMs, max) ==
    LET cleaned == cleanupOldRequests(reqs, t1, windowMs)
        data    == cleaned[ip]
        entry   == IF ~data.tracked
                   THEN [tracked |-> TRUE, count |-> 1, timestamp |-> t2]
                   ELSE IF windowExpired(t2, data.timestamp, windowMs)
                        THEN [tracked |-> TRUE, count |-> data.count + 1,
                              timestamp |-> t2]
                        ELSE [data EXCEPT !.count = data.count + 1]
        requestCount == entry.count
    IN  [requests  |-> [cleaned EXCEPT ![ip] = entry],
         limit     |-> max,
         remaining |-> Max2(0, max - requestCount),
         status    |-> IF overLimit(requestCount, max) THEN 429 ELSE 0,
         next      |-> ~overLimit(requestCount, max)]

\* rateLimit(req, res, next) for client ip; t1 is the clock read inside
\* cleanupOldRequests, t2 the one read right after it.
rateLimit(reqs, ip, t1, t2, windowMs, max) ==
    LET cleaned == cleanupOldRequests(reqs, t1, windowMs)
        data    == cleaned[ip]
        entry   == IF ~data.tracked
                   THEN [tracked |-> TRUE, count |-> 1, timestamp |-> t2]
                   ELSE IF windowExpired(t2, data.timestamp, windowMs)
                        THEN [tracked |-> TRUE, count |-> 1, timestamp |-> t2]
                        ELSE [data EXCEPT !.count = data.count + 1]
        requestCount == entry.count
    IN  [requests  |-> [cleaned EXCEPT ![ip] = entry],
         limit     |-> max,
         remaining |-> Max2(0, max - requestCount),
         status    |-> IF overLimit(requestCount, max) THEN 429 ELSE 0,
         next      |-> ~overLimit(requestCount, max)]

\* rateLimit(req, res, next) without its call of cleanupOldRequests: entries
\* are reset by the rollover branch only. t2 is its one clock read.
rateLimitPlain(reqs, ip, t2, windowMs, max) ==
    LET data    == reqs[ip]
        entry   == IF ~data.tracked
                   THEN [tracked |-> TRUE, count |-> 1, timestamp |-> t2]
                   ELSE IF windowExpired(t2, data.timestamp, windowMs)
                        THEN [tracked |-> TRUE, count |-> 1, timestamp |-> t2]
                        ELSE [data EXCEPT !.count = data.count + 1]
        requestCount == entry.count
    IN  [requests  |-> [reqs EXCEPT ![ip] = entry],
         limit     |-> max,
         remaining |-> Max2(0, max - requestCount),
         status    |-> IF overLimit(requestCount, max) THEN 429 ELSE 0,
         next      |-> ~overLimit(requestCount, max)]

\* What the model remembers of a rateLimit call.
NoCall == [called |-> FALSE, ip |-> "", t |-> 0, pre |-> Untracked, n |-> 0,
           inRun |-> FALSE, status |-> 0, remaining |-> 0, limit |-> 0,
           next |-> FALSE, recent |-> [c \in Clients |-> <<>>],
           plain |-> [c \in Clients |-> Untracked], plainNext |-> FALSE,
           plainRemaining |-> 0]

NoRun == [active |-> FALSE, t1 |-> 0, n |-> 0]

\* The requests of one client counted from the call that found no entry for
\* it, for as long as they stay within windowMs of that first call.
RunAfter(r, wasTracked, t, windowMs) ==
    IF ~wasTracked THEN [active |-> TRUE, t1 |-> t, n |-> 1]
    ELSE IF r.active /\ t - r.t1 <= windowMs THEN [r EXCEPT !.n = r.n + 1]
    ELSE NoRun

\* The calls of a client as far back as windowMs before its latest call at
\* t2: the time of each and whether next() was invoked
Recent(calls, t2, forwarded, windowMs) ==
    LET Within(x) == x.t >= t2 - windowMs
    IN Append(SelectSeq(calls, Within), [t |-> t2, next |-> forwarded])

\* How many of these calls were forwarded
Forwarded(calls) == Cardinality({i \in 1..Len(calls) : calls[i].next})

CallRecord(ip, t2, out, newRun) ==
    LET same == rateLimitPlain(rl.plain, ip, t2, limiter.windowMs, limiter.max) IN
    [called |-> TRUE, ip |-> ip, t |-> t2, pre |-> requests[ip],
     n |-> newRun.n, inRun |-> newRun.active, status |-> out.status,
     remaining |-> out.remaining, limit |-> out.limit, next |-> out.next,
     recent |-> [rl.recent EXCEPT
                   ![ip] = Recent(@, t2, out.next, limiter.windowMs)],
     plain |-> same.requests, plainNext |-> same.next,
     plainRemaining |-> same.remaining]

\* ------------------------------------------------------------ the database
Tables == {"users", "sessions", "chats"}

\* The columns of CREATE TABLE IF NOT EXISTS <t> (...)
Declared(t) ==
    CASE t = "users"    -> {"id", "name", "identifier"}
      [] t = "sessions" -> {"id", "userId", "key"}
      [] OTHER          -> {"id", "key", "content"}

NoAgain == [ran |-> FALSE, error |-> FALSE,
            before |-> [exists |-> {}, columns |-> [t \in Tables |-> {}],
                        rows |-> [users |-> {}, sessions |-> {}, chats |-> {}]]]

\* The database once start-up is over: the three tables exist.
NoBoot == [exists |-> Tables, columns |-> [t \in Tables |-> Declared(t)],
           queue |-> <<>>, rejected |-> {}, resolved |-> {}, log |-> <<>>,
           reported |-> FALSE,
           crashed |-> FALSE, served |-> FALSE, again |-> NoAgain]

NoFault == [where |-> "", handler |-> "", nth |-> 0, code |-> "", client |-> 0,
            uncaught |-> FALSE, fatal |-> FALSE, written |-> 0]

NoSlot == [on |-> FALSE, path |-> "", body |-> NoBody, sawUser |-> FALSE,
           sawSession |-> FALSE, together |-> FALSE]

Slots == 1..MaxInflight

\* What is remembered of the in-flight request handled last
NoDone == [on |-> FALSE, sawUser |-> FALSE, sawSession |-> FALSE,
           together |-> FALSE]

NoFlight == [slots |-> [n \in Slots |-> NoSlot], done |-> NoDone]

\* ------------------------------------------------------------------ start-up
\* The two versions of the Server class of modules/server
Servers == {"modules/server", "part_004"}

NoPriv == [endpoints |-> FALSE, middleware |-> FALSE, afterware |-> FALSE,
           callback |-> FALSE, server |-> "modules/server"]

NoHist ==
    [sent    |-> [k \in KeyVals |-> 0],
     recv    |-> [k \in KeyVals |-> 0],
     expired |-> [k \in KeyVals |-> "no"],
     sess    |-> [k \in KeyVals |-> "none"],
     created |-> [i \in Idents |-> FALSE]]

NoPre == [sent |-> 0, recv |-> 0, expired |-> "no", sess |-> "none",
          created |-> FALSE, content |-> "", inTime |-> FALSE]

NoRequest ==
    [via |-> "none", handler |-> "", inTable |-> FALSE, status |-> 0,
     error |-> "", valid |-> FALSE, key |-> "", identifier |-> "", rows |-> {},
     userId |-> 0, passed |-> <<>>, limited |-> FALSE, changed |-> FALSE,
     sentUserId |-> 0, method |-> "", path |-> "", invoked |-> <<>>,
     pre |-> NoPre]

Init ==
    /\ variant \in Variants
    /\ pc = "new"
    /\ stack = <<>>
    /\ limiter = [set |-> FALSE, windowMs |-> 0, max |-> 0]
    /\ requests = [ip \in Clients |-> Untracked]
    /\ now = 0
    /\ users = {} /\ sessions = {} /\ chats = {}
    /\ autoinc = [users |-> 0, sessions |-> 0, chats |-> 0]
    /\ timers = <<>>
    /\ priv = NoPriv
    /\ rl = NoCall
    /\ run = [ip \in Clients |-> NoRun]
    /\ last = NoRequest
    /\ hist = NoHist
    /\ boot = NoBoot
    /\ fault = NoFault
    /\ flight = NoFlight
    /\ budget = [chats |-> SmallRows, users |-> SmallRows, sessions |-> SmallRows,
                 ticks |-> SmallTicks]

\* The statement of the entry script that follows the one at `at`.
NextPc(v, at) ==
    CASE v = "index" ->
           (CASE at = "new" -> "endpoints" [] at = "endpoints" -> "listen"
              [] OTHER -> "listening")
      [] v = "part007" ->
           (CASE at = "new" -> "endpoints" [] at = "endpoints" -> "rate_limit"
              [] at = "rate_limit" -> "listen" [] OTHER -> "listening")
      [] v = "config" ->
           (CASE at = "new" -> "config" [] at = "config" -> "bind"
              [] at = "bind" -> "listen" [] OTHER -> "listening")
      [] OTHER -> (CASE at = "new" -> "listen" [] OTHER -> "listening")

\* #bind() / bind(): one layer per route of the table, then the catch-all
bind(v, stk, withAfterware) ==
    stk \o endpoints(v) \o (IF withAfterware THEN <<afterware(v)>> ELSE <<>>)

Frame == UNCHANGED <<variant, requests, now, users, sessions, chats, autoinc,
                     timers, rl, run, last, hist, budget, boot, fault, flight>>

\* new Server(...): custom_modules/server runs #middleware(); part_006 runs
\* #middleware() and #bind(); modules/server registers nothing.
Constructor ==
    /\ pc = "new"
    /\ stack' = CASE variant = "config" -> <<>>
                  [] variant = "part006" -> bind(variant, middleware(variant), TRUE)
                  [] OTHER -> middleware(variant)
    /\ priv' = IF variant = "part006" THEN [priv EXCEPT !.endpoints = TRUE] ELSE priv
    /\ pc' = NextPc(variant, pc)
    /\ UNCHANGED limiter
    /\ Frame

\* server.endpoints = {...} of custom_modules/server: store, then #bind()
SetEndpoints ==
    /\ pc = "endpoints"
    /\ priv' = [priv EXCEPT !.endpoints = TRUE]
    /\ stack' = bind(variant, stack, TRUE)
    /\ pc' = NextPc(variant, pc)
    /\ UNCHANGED limiter
    /\ Frame

\* server.rate_limit = {...}: new CustomRateLimiter, then app.use(...)
SetRateLimit ==
    /\ pc = "rate_limit"
    /\ limiter' = [set |-> TRUE, windowMs |-> DeployedWindow, max |-> DeployedMax]
    /\ stack' = Append(stack, LimiterLayer)
    /\ pc' = NextPc(variant, pc)
    /\ UNCHANGED priv
    /\ Frame

\* server.config = #config: the entries limiter, callback, middleware,
\* afterware, endpoints are assigned in this order; only the limiter setter
\* registers a layer at once.
SetConfig ==
    /\ pc = "config"
    /\ stack' = Append(stack, ExtLimiterLayer)
    /\ priv' = [priv EXCEPT !.endpoints = TRUE, !.middleware = TRUE,
                            !.afterware = TRUE, !.callback = TRUE]
    /\ pc' = NextPc(variant, pc)
    /\ UNCHANGED limiter
    /\ Frame

\* server.bind() of modules/server
Bind ==
    /\ pc = "bind"
    /\ stack' = LET withMw == IF priv.middleware THEN stack \o middleware(variant)
                              ELSE stack
                IN IF priv.endpoints THEN bind(variant, withMw, priv.afterware)
                   ELSE withMw \o (IF priv.afterware THEN <<afterware(variant)>>
                                   ELSE <<>>)
    /\ pc' = NextPc(variant, pc)
    /\ UNCHANGED <<limiter, priv>>
    /\ Frame

\* server.listen(port)
Listen ==
    /\ pc = "listen"
    /\ pc' = "listening"
    /\ UNCHANGED <<stack, limiter, priv>>
    /\ Frame

\* ------------------------------------------------------------------ dispatch
NoOutcome ==
    [target |-> "default", handler |-> "", status |-> 404, passed |-> <<>>,
     requests |-> requests, calls |-> <<>>]

\* Express walks the stack in registration order: a `use` layer runs and calls
\* next(); the limiter layers answer 429 or call next(); a route layer handles
\* the request when method and path match; the catch-all answers; a request
\* that falls off the end gets Express' own 404.
RECURSIVE Walk(_, _, _, _, _, _)
Walk(i, method, path, ip, extReject, acc) ==
    IF i > Len(stack) THEN acc
    ELSE LET L == stack[i] IN
      CASE L.kind = "use" ->
             Walk(i + 1, method, path, ip, extReject,
                  [acc EXCEPT !.passed = Append(@, L.name)])
        [] L.kind = "limiter" ->
             LET out == rateLimit(acc.requests, ip, now, now,
                                  limiter.windowMs, limiter.max)
                 seen == [acc EXCEPT !.requests = out.requests,
                                     !.calls = Append(@, out),
                                     !.passed = Append(@, L.name)]
             IN IF out.next THEN Walk(i + 1, method, path, ip, extReject, seen)
                ELSE [seen EXCEPT !.target = "limiter", !.status = 429]
        [] L.kind = "extlimiter" ->
             IF extReject
             THEN [acc EXCEPT !.target = "extlimiter", !.status = 429]
             ELSE Walk(i + 1, method, path, ip, extReject,
                       [acc EXCEPT !.passed = Append(@, L.name)])
        [] L.kind = "route" ->
             IF L.method = method /\ L.path = path
             THEN [acc EXCEPT !.target = "route", !.handler = L.name, !.status = 0]
             ELSE Walk(i + 1, method, path, ip, extReject, acc)
        [] OTHER ->
             [acc EXCEPT !.target = "catchall", !.status = L.status]

Bump(n) == Min2(n + 1, 2)

Seen(n) == Min2(n + 1, 1)

\* The history after a request handled by handler h with reply r.
HistAfter(h, body, r) ==
    IF ~r.valid THEN hist
    ELSE CASE h = "send" /\ r.status = 200 ->
                [hist EXCEPT !.sent[body.key] = Bump(@), !.recv[body.key] = 0]
           [] h = "receive" -> [hist EXCEPT !.recv[body.key] = Seen(@)]
           [] h = "invite" /\ r.status = 201 ->
                [hist EXCEPT !.sess[body.key] = "fresh"]
           [] h = "claim" /\ hist.sess[body.key] = "fresh" ->
                [hist EXCEPT !.sess[body.key] = "claimed"]
           [] h = "create" /\ r.status \in {200, 201} ->
                [hist EXCEPT !.created[body.identifier] = TRUE]
           [] OTHER -> hist

\* The pending timers scheduled by a /send for key k
PendingFor(k) == {i \in 1..Len(timers) : timers[i].sendKey = k}

\* The history of the key / identifier of a valid request, before it ran.
PreOf(body, r) ==
    [sent    |-> IF r.valid /\ body.key \in KeyVals THEN hist.sent[body.key] ELSE 0,
     recv    |-> IF r.valid /\ body.key \in KeyVals THEN hist.recv[body.key] ELSE 0,
     expired |-> IF r.valid /\ body.key \in KeyVals THEN hist.expired[body.key] ELSE "no",
     sess    |-> IF r.valid /\ body.key \in KeyVals THEN hist.sess[body.key] ELSE "none",
     created |-> IF r.valid /\ body.identifier \in Idents
                 THEN hist.created[body.identifier] ELSE FALSE,
     content |-> IF r.valid /\ PendingFor(body.key) # {}
                 THEN timers[CHOOSE i \in PendingFor(body.key) : TRUE].sendContent
                 ELSE "",
     inTime  |-> /\ r.valid /\ PendingFor(body.key) # {}
                 /\ \A i \in PendingFor(body.key) : now < timers[i].due]

\* express-rate-limit is a library: where it is registered it may reject or
\* forward any request.
ExtChoices ==
    IF \E i \in 1..Len(stack) : stack[i].kind = "extlimiter" THEN BOOLEAN
    ELSE {FALSE}

\* The client address is read by the limiter layer only, and a layer that is
\* registered behind the catch-all never runs.
IpChoices ==
    IF \E i \in 1..Len(stack) :
          /\ stack[i].kind = "limiter"
          /\ \A j \in 1..(i - 1) : stack[j].kind # "catchall"
    THEN Clients
    ELSE {"ip1"}

\* Whether the rejection of the async route wrapper gets answered matters
\* only where a handler throws: /send with an invalid body.
AnswerChoices(w, body) ==
    IF w.target = "route" /\ w.handler = "send" /\ variant = "config"
       /\ ~Validate(messageSchema, body)
    THEN BOOLEAN ELSE {TRUE}
Paths == {"/", "/send", "/receive", "/user", "/claim", "/invite", "/create",
          "/signup", "/nope"}

\* Whether handler h throws out of its own try block: res.status(StatusCodes)
\* in /send of modules/config.
Throws(h, v, body) ==
    v = "config" /\ h = "send" /\ ~Validate(messageSchema, body)

\* The listener that bind() registers for a route, as the calls it makes in
\* order. custom_modules/server: handler(this, req, res); part_006: the
\* handler itself; modules/server: the callback, then await handler(...);
\* part_004: await handler(...), then the callback.
Wrapper(v, server, h, hasCallback, threw) ==
    IF v # "config" THEN <<h>>
    ELSE IF server = "part_004"
         THEN (IF hasCallback /\ ~threw THEN <<h, "callback">> ELSE <<h>>)
         ELSE (IF hasCallback THEN <<"callback", h>> ELSE <<h>>)

\* Whether (method, path) is an entry of the route table of variant v.
InTable(v, method, path) ==
    \E i \in 1..Len(endpoints(v)) :
        endpoints(v)[i].method = method /\ endpoints(v)[i].path = path

\* The handling of one HTTP request of client ip whose body is one of B.
RequestWith(ip, method, path, extReject, B) ==
    /\ pc = "listening"
    /\ \E w \in {Walk(1, method, path, ip, extReject, NoOutcome)} :
       \E body \in IF w.target = "route" THEN B ELSE {NoBody} :
       \E answered \in AnswerChoices(w, body) :
       \E r \in {IF w.target = "route"
                 THEN Handle(w.handler, variant, body, answered)
                 ELSE Reply(w.status, FALSE,
                            IF w.target = "catchall" THEN "Method Not Allowed"
                            ELSE "")} :
       \E newRun \in {IF w.calls = <<>> THEN run[ip]
                      ELSE RunAfter(run[ip], requests[ip].tracked, now,
                                    limiter.windowMs)} :
           /\ r.autoinc.chats <= budget.chats
           /\ r.autoinc.users <= budget.users
           /\ r.autoinc.sessions <= budget.sessions
           /\ w.requests[ip].count <= limiter.max + MaxOver
           /\ users' = r.users
           /\ sessions' = r.sessions
           /\ chats' = r.chats
           /\ autoinc' = r.autoinc
           /\ timers' = timers \o r.scheduled
           /\ requests' = w.requests
           /\ run' = [run EXCEPT ![ip] = newRun]
           /\ rl' = IF w.calls = <<>> THEN rl
                    ELSE CallRecord(ip, now, w.calls[1], newRun)
           /\ hist' = IF w.target = "route" THEN HistAfter(w.handler, body, r)
                      ELSE hist
           /\ last' = [via |-> w.target, handler |-> w.handler,
                       inTable |-> InTable(variant, method, path),
                       status |-> r.status, error |-> r.error,
                       valid |-> r.valid,
                       key |-> IF r.valid THEN body.key ELSE "",
                       identifier |-> IF r.valid THEN body.identifier ELSE "",
                       rows |-> r.rows, userId |-> r.userId, passed |-> w.passed,
                       limited |-> w.calls # <<>>,
                       sentUserId |-> IF r.valid THEN body.userId ELSE 0,
                       method |-> method, path |-> path,
                       invoked |-> IF w.target = "route"
                                   THEN Wrapper(variant, priv.server, w.handler,
                                                priv.callback,
                                                Throws(w.handler, variant, body))
                                   ELSE <<>>,
                       changed |-> \/ r.users # users \/ r.sessions # sessions
                                   \/ r.chats # chats \/ r.scheduled # <<>>,
                       pre |-> IF w.target = "route" THEN PreOf(body, r) ELSE NoPre]
    /\ UNCHANGED <<variant, pc, stack, limiter, now, priv, budget, boot, fault>>

\* One HTTP request from client ip, from its arrival to its response.
Request(ip, method, path, extReject) ==
    /\ RequestWith(ip, method, path, extReject, BodiesFor(variant, method, path))
    /\ UNCHANGED flight

\* The callback of the oldest pending setTimeout runs once its delay is over:
\* database.prepare("DELETE FROM chats WHERE key = ?").run(content)
TimerFires ==
    /\ pc = "listening"
    /\ timers # <<>>
    /\ Head(timers).due <= now
    /\ chats' = DeleteChats(chats, Head(timers).arg)
    /\ timers' = Tail(timers)
    /\ hist' = LET k == Head(timers).sendKey IN
               [hist EXCEPT !.expired[k] =
                    IF hist.recv[k] = 0 THEN "unclaimed" ELSE "claimed"]
    /\ UNCHANGED <<variant, pc, stack, limiter, requests, now, users, sessions,
                   autoinc, priv, rl, run, last, budget, boot, fault, flight>>

\* Time passes; a timer that is due runs before the clock moves on.
Tick ==
    /\ pc = "listening"
    /\ now + TickMs <= budget.ticks * TickMs
    /\ IF timers = <<>> THEN TRUE ELSE Head(timers).due > now
    /\ now' = now + TickMs
    /\ UNCHANGED <<variant, pc, stack, limiter, requests, users, sessions, chats,
                   autoinc, timers, priv, rl, run, last, hist, budget, boot, fault,
                   flight>>

Methods == {"get", "post"}

\* The statements of the entry script
Startup ==
    \/ Constructor
    \/ SetEndpoints
    \/ SetRateLimit
    \/ SetConfig
    \/ Bind
    \/ Listen

\* A request for one of the paths in P
RequestFor(P) ==
    \E ip \in IpChoices, method \in Methods, path \in P, extReject \in ExtChoices :
        Request(ip, method, path, extReject)

Next ==
    \/ Startup
    \/ RequestFor(Paths)
    \/ TimerFires
    \/ Tick

Spec == Init /\ [][Next]_vars

\* All routes, while no timer comes due
NextRoutes ==
    \/ Startup
    \/ RequestFor(Paths)

SpecRoutes == Init /\ [][NextRoutes]_vars

\* The chat routes alone, more rows and more time
ChatPaths == {"/send", "/receive"}

InitChat ==
    /\ variant \in Variants
    /\ pc = "new"
    /\ stack = <<>>
    /\ limiter = [set |-> FALSE, windowMs |-> 0, max |-> 0]
    /\ requests = [ip \in Clients |-> Untracked]
    /\ now = 0
    /\ users = {} /\ sessions = {} /\ chats = {}
    /\ autoinc = [users |-> 0, sessions |-> 0, chats |-> 0]
    /\ timers = <<>>
    /\ priv = NoPriv
    /\ rl = NoCall
    /\ run = [ip \in Clients |-> NoRun]
    /\ last = NoRequest
    /\ hist = NoHist
    /\ boot = NoBoot
    /\ fault = NoFault
    /\ flight = NoFlight
    /\ budget = [chats |-> MaxChats, users |-> 0, sessions |-> 0,
                 ticks |-> MaxTicks]

NextChat ==
    \/ Startup
    \/ RequestFor(ChatPaths)
    \/ TimerFires
    \/ Tick

SpecChat == InitChat /\ [][NextChat]_vars

\* The user and session routes alone, more rows
AccountPaths == {"/user", "/claim", "/invite", "/create", "/signup"}

InitAccounts ==
    /\ variant \in Variants
    /\ pc = "new"
    /\ stack = <<>>
    /\ limiter = [set |-> FALSE, windowMs |-> 0, max |-> 0]
    /\ requests = [ip \in Clients |-> Untracked]
    /\ now = 0
    /\ users = {} /\ sessions = {} /\ chats = {}
    /\ autoinc = [users |-> 0, sessions |-> 0, chats |-> 0]
    /\ timers = <<>>
    /\ priv = NoPriv
    /\ rl = NoCall
    /\ run = [ip \in Clients |-> NoRun]
    /\ last = NoRequest
    /\ hist = NoHist
    /\ boot = NoBoot
    /\ fault = NoFault
    /\ flight = NoFlight
    /\ budget = [chats |-> 0, users |-> MaxUsers, sessions |-> MaxSessions,
                 ticks |-> 0]

NextAccounts ==
    \/ Startup
    \/ RequestFor(AccountPaths)

SpecAccounts == InitAccounts /\ [][NextAccounts]_vars

\* ---------------------------------------- the limiter exercised on its own
InitRL ==
    /\ variant = "part007"
    /\ pc = "listening"
    /\ stack = <<>>
    /\ limiter \in [set : {TRUE}, windowMs : 1..MaxWindow, max : 1..MaxLimit]
    /\ requests = [ip \in Clients |-> Untracked]
    /\ now = 0
    /\ users = {} /\ sessions = {} /\ chats = {}
    /\ autoinc = [users |-> 0, sessions |-> 0, chats |-> 0]
    /\ timers = <<>>
    /\ priv = NoPriv
    /\ rl = NoCall
    /\ run = [ip \in Clients |-> NoRun]
    /\ last = NoRequest
    /\ hist = NoHist
    /\ boot = NoBoot
    /\ fault = NoFault
    /\ flight = NoFlight
    /\ budget = [chats |-> 0, users |-> 0, sessions |-> 0, ticks |-> 0]

\* One call of limiter.rateLimit(req, res, next); the clock may move by d
\* between the two Date.now() reads.
RlCall(ip, d) ==
    /\ now + d <= MaxRlClock
    /\ LET out    == rateLimit(requests, ip, now, now + d, limiter.windowMs, limiter.max)
           newRun == RunAfter(run[ip], requests[ip].tracked, now + d, limiter.windowMs)
       IN  /\ out.requests[ip].count <= limiter.max + MaxOver
           /\ requests' = out.requests
           /\ run' = [run EXCEPT ![ip] = newRun]
           /\ rl' = CallRecord(ip, now + d, out, newRun)
    /\ now' = now + d
    /\ UNCHANGED <<variant, pc, stack, limiter, users, sessions, chats, autoinc,
                   timers, priv, last, hist, budget, boot, fault, flight>>

RlTick ==
    /\ now < MaxRlClock
    /\ now' = now + 1
    /\ UNCHANGED <<variant, pc, stack, limiter, requests, users, sessions, chats,
                   autoinc, timers, priv, rl, run, last, hist, budget, boot, fault,
                   flight>>

NextRL ==
    \/ \E ip \in Clients, d \in 0..1 : RlCall(ip, d)
    \/ RlTick

SpecRL == InitRL /\ [][NextRL]_vars

\* ------------------------------------- process start: reset, then provision
\* The entry scripts that reset and provision the database: index.js on
\* custom_modules/server, part_008 on modules/server.
BootVariants == {"index", "part008"}

ResetSql == << [op |-> "delete", table |-> "users"],
               [op |-> "delete", table |-> "sessions"],
               [op |-> "delete", table |-> "chats"] >>

SetupSql == << [op |-> "create", table |-> "users"],
               [op |-> "create", table |-> "sessions"],
               [op |-> "create", table |-> "chats"] >>

Script(call) == IF call = "reset" THEN ResetSql ELSE SetupSql

\* The database as the statements see it
Store == [exists |-> boot.exists, columns |-> boot.columns,
          rows |-> [users |-> users, sessions |-> sessions, chats |-> chats]]

\* DELETE FROM <t>: throws "no such table" when t does not exist
DeleteFrom(db, t) ==
    IF t \in db.exists THEN [ok |-> TRUE, db |-> [db EXCEPT !.rows[t] = {}]]
    ELSE [ok |-> FALSE, db |-> db]

CreateTable_Plain(db, t) ==
    IF t \in db.exists THEN [ok |-> FALSE, db |-> db]
    ELSE [ok |-> TRUE,
          db |-> [db EXCEPT !.exists = @ \cup {t}, !.columns[t] = Declared(t),
                            !.rows[t] = {}]]

\* CREATE TABLE IF NOT EXISTS <t> (...)
CreateTableIfNotExists(db, t) ==
    IF t \in db.exists THEN [ok |-> TRUE, db |-> db]
    ELSE [ok |-> TRUE,
          db |-> [db EXCEPT !.exists = @ \cup {t}, !.columns[t] = Declared(t),
                            !.rows[t] = {}]]

\* this.database.exec(sql)
exec(db, sql) ==
    IF sql.op = "delete" THEN DeleteFrom(db, sql.table)
    ELSE CreateTableIfNotExists(db, sql.table)

\* parseExec with nothing else running: the statements in order, up to the
\* first one that throws
RECURSIVE parseExec(_, _, _)
parseExec(db, array, i) ==
    IF i > Len(array) THEN [ok |-> TRUE, db |-> db]
    ELSE LET out == exec(db, array[i]) IN
         IF out.ok THEN parseExec(out.db, array, i + 1) ELSE out

\* custom_modules/server: parseExec is an async function, so its first
\* statement runs inside the call; modules/server chains every statement
\* behind Promise.resolve([]).
RunsFirstInCall(v) == v = "index"

\* part_008 attaches .catch to both calls; index.js attaches nothing.
Catches(v) == v = "part008"

\* The rows a table of the database file may hold at process start
BootRows(t) ==
    CASE t = "users" ->
           SUBSET {[id |-> n, name |-> "n", identifier |-> "i1"] : n \in 1..MaxBootRows}
      [] t = "sessions" ->
           SUBSET {[id |-> n, userId |-> 1, key |-> "a"] : n \in 1..MaxBootRows}
      [] OTHER ->
           SUBSET {[id |-> n, key |-> "a", content |-> "x"] : n \in 1..MaxBootRows}

InitBoot ==
    /\ variant \in BootVariants
    /\ pc = "reset"
    /\ stack = <<>>
    /\ limiter = [set |-> FALSE, windowMs |-> 0, max |-> 0]
    /\ requests = [ip \in Clients |-> Untracked]
    /\ now = 0
    /\ \E present \in SUBSET Tables :
          /\ boot = [NoBoot EXCEPT !.exists = present,
                       !.columns = [t \in Tables |->
                                      IF t \in present THEN Declared(t) ELSE {}]]
          /\ users \in (IF "users" \in present THEN BootRows("users") ELSE {{}})
          /\ sessions \in (IF "sessions" \in present THEN BootRows("sessions") ELSE {{}})
          /\ chats \in (IF "chats" \in present THEN BootRows("chats") ELSE {{}})
    /\ autoinc = [users |-> 0, sessions |-> 0, chats |-> 0]
    /\ timers = <<>>
    /\ priv = NoPriv
    /\ rl = NoCall
    /\ run = [ip \in Clients |-> NoRun]
    /\ last = NoRequest
    /\ hist = NoHist
    /\ fault = NoFault
    /\ flight = NoFlight
    /\ budget = [chats |-> 0, users |-> 0, sessions |-> 0, ticks |-> 0]

BootFrame == UNCHANGED <<variant, stack, limiter, requests, now, autoinc, timers,
                         priv, rl, run, last, hist, budget, fault, flight>>

RunStatement_KeepGoing(call, i, pending) ==
    LET out == exec(Store, Script(call)[i]) IN
    /\ users' = out.db.rows["users"]
    /\ sessions' = out.db.rows["sessions"]
    /\ chats' = out.db.rows["chats"]
    /\ boot' = [boot EXCEPT
                  !.exists = out.db.exists,
                  !.columns = out.db.columns,
                  !.queue = pending \o (IF i < Len(Script(call))
                                        THEN <<[call |-> call, i |-> i + 1]>>
                                        ELSE <<>>),
                  !.rejected = IF out.ok THEN @ ELSE @ \cup {call},
                  !.resolved = IF out.ok /\ i = Len(Script(call))
                               THEN @ \cup {call} ELSE @,
                  !.log = Append(@, [call |-> call, i |-> i, ok |-> out.ok])]

\* Statement i of a parseExec call runs; if it throws, the call's promise is
\* rejected and the rest of its array is never executed; after the last
\* statement the promise is resolved. boot.log records the statements in the
\* order they are executed.
RunStatement(call, i, pending) ==
    LET out == exec(Store, Script(call)[i]) IN
    /\ users' = out.db.rows["users"]
    /\ sessions' = out.db.rows["sessions"]
    /\ chats' = out.db.rows["chats"]
    /\ boot' = [boot EXCEPT
                  !.exists = out.db.exists,
                  !.columns = out.db.columns,
                  !.queue = pending \o (IF out.ok /\ i < Len(Script(call))
                                        THEN <<[call |-> call, i |-> i + 1]>>
                                        ELSE <<>>),
                  !.rejected = IF out.ok THEN @ ELSE @ \cup {call},
                  !.resolved = IF out.ok /\ i = Len(Script(call))
                               THEN @ \cup {call} ELSE @,
                  !.log = Append(@, [call |-> call, i |-> i, ok |-> out.ok])]

\* server.parseExec([...]) in the entry script
CallParseExec(call, then) ==
    /\ pc = call
    /\ pc' = then
    /\ IF RunsFirstInCall(variant)
       THEN RunStatement(call, 1, boot.queue)
       ELSE /\ boot' = [boot EXCEPT !.queue = Append(@, [call |-> call, i |-> 1])]
            /\ UNCHANGED <<users, sessions, chats>>
    /\ BootFrame

ParseExecReset == CallParseExec("reset", "setup")

ParseExecSetup == CallParseExec("setup", "bootlisten")

\* server.listen(port): connections are accepted in later event-loop turns
BootListen ==
    /\ pc = "bootlisten"
    /\ pc' = "booted"
    /\ UNCHANGED <<users, sessions, chats, boot>>
    /\ BootFrame

\* The continuation of the oldest suspended parseExec call runs.
Microtask ==
    /\ pc = "booted"
    /\ boot.queue # <<>>
    /\ RunStatement(Head(boot.queue).call, Head(boot.queue).i, Tail(boot.queue))
    /\ UNCHANGED pc
    /\ BootFrame

\* A rejected parseExec promise nobody handles: Node terminates the process
\* or only warns, depending on its version and flags.
UnhandledRejection ==
    /\ pc = "booted"
    /\ boot.queue = <<>>
    /\ boot.rejected # {} /\ ~Catches(variant) /\ ~boot.reported
    /\ \E fatal \in BOOLEAN :
          boot' = [boot EXCEPT !.reported = TRUE, !.crashed = fatal]
    /\ UNCHANGED <<pc, users, sessions, chats>>
    /\ BootFrame

BootSettled ==
    /\ pc = "booted"
    /\ boot.queue = <<>>
    /\ boot.rejected = {} \/ Catches(variant) \/ boot.reported
    /\ ~boot.crashed

\* The first HTTP request reaches a handler.
FirstRequest ==
    /\ BootSettled
    /\ ~boot.served
    /\ boot' = [boot EXCEPT !.served = TRUE]
    /\ UNCHANGED <<pc, users, sessions, chats>>
    /\ BootFrame

\* The three CREATE TABLE IF NOT EXISTS statements are executed once more.
SetupAgain ==
    /\ BootSettled
    /\ "setup" \notin boot.rejected
    /\ ~boot.again.ran
    /\ LET out == parseExec(Store, SetupSql, 1) IN
       /\ users' = out.db.rows["users"]
       /\ sessions' = out.db.rows["sessions"]
       /\ chats' = out.db.rows["chats"]
       /\ boot' = [boot EXCEPT
                     !.exists = out.db.exists,
                     !.columns = out.db.columns,
                     !.again = [ran |-> TRUE, error |-> ~out.ok, before |-> Store]]
    /\ UNCHANGED pc
    /\ BootFrame

NextBoot ==
    \/ ParseExecReset
    \/ ParseExecSetup
    \/ BootListen
    \/ Microtask
    \/ UnhandledRejection
    \/ FirstRequest
    \/ SetupAgain

SpecBoot == InitBoot /\ [][NextBoot]_vars

\* ------------------------------------------------ storage calls that throw
\* The error codes a storage call may throw with; the handlers recognise
\* err.code === "SQLITE_CONSTRAINT" only.
Codes == {"SQLITE_ERROR", "SQLITE_CONSTRAINT"}

\* No handler makes more storage calls than /claim of modules/config.
MaxCalls == 3

Call(stmt, sent) == [stmt |-> stmt, sent |-> sent]

\* The storage calls handler h makes for a body its schema accepts, in order;
\* `sent` tells whether the success response was written before the call.
StorageCalls(h, v, body) ==
    CASE h = "send" -> << Call("insert", FALSE) >>
      [] h = "receive" ->
           IF SelectChats(chats, body.key) = {} THEN << Call("select", FALSE) >>
           ELSE << Call("select", FALSE), Call("delete", TRUE) >>
      [] h = "user" -> << Call("select", FALSE) >>
      [] h = "claim" ->
           LET found == SelectSessions(sessions, body.key) IN
           IF found = {} THEN << Call("select", FALSE) >>
           ELSE IF v # "config"
                THEN << Call("select", FALSE), Call("delete", TRUE) >>
                ELSE IF SelectUserId(users, Get(found).userId) = {}
                     THEN << Call("select", FALSE), Call("select", FALSE) >>
                     ELSE << Call("select", FALSE), Call("select", FALSE),
                             Call("delete", TRUE) >>
      [] h = "invite" ->
           IF SelectSessions(sessions, body.key) # {} THEN << Call("select", FALSE) >>
           ELSE IF (IF v = "config" THEN SelectUsers(users, body.identifier)
                    ELSE SelectUsersById(users, body.identifier, body.userId)) = {}
                THEN << Call("select", FALSE), Call("select", FALSE) >>
                ELSE << Call("select", FALSE), Call("select", FALSE),
                        Call("insert", FALSE) >>
      [] h = "create" ->
           IF SelectUsers(users, body.identifier) # {} THEN << Call("select", FALSE) >>
           ELSE << Call("select", FALSE), Call("insert", FALSE) >>
      [] OTHER -> << >>

\* The response object of a request nothing was written to yet
NoRes == [headersSent |-> FALSE, status |-> 0, written |-> 0, threw |-> FALSE]

Send_AfterSent(res, status) ==
    [headersSent |-> TRUE, status |-> status, written |-> res.written + 1,
     threw |-> FALSE]

\* res.status(status).send(...): writes the response, or throws when the
\* headers of this response were sent already
Send(res, status) ==
    IF res.headersSent THEN [res EXCEPT !.threw = TRUE]
    ELSE [headersSent |-> TRUE, status |-> status, written |-> res.written + 1,
          threw |-> FALSE]

\* The handlers whose catch block answers 409 for err.code "SQLITE_CONSTRAINT"
Remaps(h) == h \in {"invite", "create"}

\* catch (err) { ... res.status(...).send(...) }: the status the client gets
\* when a call throws. After the success response was written the client
\* already has its 200 and the send in the catch block throws in turn.
Caught(h, call, code) ==
    LET tried == IF call.sent THEN Send(NoRes, 200) ELSE NoRes
        out == Send(tried, IF Remaps(h) /\ code = "SQLITE_CONSTRAINT" THEN 409
                           ELSE 500)
    IN [client |-> out.status, uncaught |-> out.threw, written |-> out.written]

\* An exception leaving a handler: Express answers for the (req, res) wrapper
\* of custom_modules/server; behind the async wrapper of modules/server it is
\* an unhandled rejection, which Node may treat as fatal.
FatalChoices(v, uncaught) ==
    IF uncaught /\ v = "config" THEN BOOLEAN ELSE {FALSE}

HandlerAt(v, method, path) ==
    LET hits == {i \in 1..Len(endpoints(v)) :
                    endpoints(v)[i].method = method /\ endpoints(v)[i].path = path}
    IN IF hits = {} THEN "" ELSE endpoints(v)[CHOOSE i \in hits : TRUE].name

\* A request whose body the schema accepts and whose nth storage call throws:
\* the statement that throws changes nothing, and what precedes it in every
\* handler is reads and the response.
FailingRequest(path, nth, code) ==
    /\ pc = "listening"
    /\ \E h \in {HandlerAt(variant, "post", path)} :
       \E body \in FullBodies(FieldsFor(variant, path)) :
       \E calls \in {StorageCalls(h, variant, body)} :
          /\ h # ""
          /\ nth <= Len(calls)
          /\ \E out \in {Caught(h, calls[nth], code)} :
             \E fatal \in FatalChoices(variant, out.uncaught) :
                /\ fault' = [where |-> "handler", handler |-> h, nth |-> nth,
                             code |-> code, client |-> out.client,
                             uncaught |-> out.uncaught, fatal |-> fatal,
                             written |-> out.written]
                /\ pc' = IF fatal THEN "crashed" ELSE pc
    /\ UNCHANGED <<variant, stack, limiter, requests, now, users, sessions, chats,
                   autoinc, timers, priv, rl, run, last, hist, budget, boot, flight>>

\* The DELETE of the oldest due timer callback throws: nothing catches it
\* inside setTimeout, so it is an uncaught exception and the process ends.
TimerFiresFailing ==
    /\ pc = "listening"
    /\ timers # <<>>
    /\ Head(timers).due <= now
    /\ \E code \in Codes :
          fault' = [where |-> "timer", handler |-> "", nth |-> 1, code |-> code,
                    client |-> 0, uncaught |-> TRUE, fatal |-> TRUE,
                    written |-> 0]
    /\ timers' = Tail(timers)
    /\ pc' = "crashed"
    /\ UNCHANGED <<variant, stack, limiter, requests, now, users, sessions, chats,
                   autoinc, priv, rl, run, last, hist, budget, boot, flight>>

\* Requests that fill the tables, each with one body its schema accepts
FillPaths == {"/send", "/invite", "/create", "/signup"}

Fill ==
    \E path \in FillPaths :
        /\ RequestWith("ip1", "post", path, FALSE,
                       {SampleBody(FieldsFor(variant, path))})
        /\ UNCHANGED flight

FaultPaths == {"/send", "/receive", "/user", "/claim", "/invite", "/create",
               "/signup"}

NextFaults ==
    \/ Startup
    \/ Fill
    \/ \E path \in FaultPaths, nth \in 1..MaxCalls, code \in Codes :
          FailingRequest(path, nth, code)
    \/ TimerFires
    \/ TimerFiresFailing
    \/ Tick

SpecFaults == Init /\ [][NextFaults]_vars

\* ------------------------------------------------------ requests in flight
\* A request is in flight from its arrival until its route handler runs:
\* express.json() reads the body asynchronously, so other requests may arrive
\* and be handled meanwhile. The handler itself makes only synchronous
\* better-sqlite3 calls and contains no await, so it runs in one turn.

\* Whether another request in flight carries the same path and identifier
Together(n) ==
    \E m \in Slots \ {n} :
        /\ flight.slots[m].on
        /\ flight.slots[m].path = flight.slots[n].path
        /\ flight.slots[m].body.identifier = flight.slots[n].body.identifier
        /\ flight.slots[m].body.key = flight.slots[n].body.key

\* The bodies of the in-flight requests: accepted by the schema, and naming
\* no other user than the one SignUp creates when a userId is sent.
InflightBodies(v, path) ==
    {b \in FullBodies(FieldsFor(v, path)) :
        "userId" \in b.present =>
            /\ b.userId = SampleBody({"userId"}).userId
            /\ b.identifier = SampleBody({"identifier"}).identifier}

Arrive(n, path) ==
    /\ pc = "listening"
    /\ ~flight.slots[n].on
    /\ InTable(variant, "post", path)
    /\ \E body \in InflightBodies(variant, path) :
          flight' = [flight EXCEPT !.slots[n] =
                       [on |-> TRUE, path |-> path, body |-> body,
                        sawUser |-> SelectUsers(users, body.identifier) # {},
                        sawSession |-> SelectSessions(sessions, body.key) # {},
                        together |-> FALSE]]
    /\ UNCHANGED <<variant, pc, stack, limiter, requests, now, users, sessions,
                   chats, autoinc, timers, priv, rl, run, last, hist, budget, boot,
                   fault>>

\* The route handler of the in-flight request n runs to completion.
Serve(n) ==
    /\ flight.slots[n].on
    /\ RequestWith("ip1", "post", flight.slots[n].path, FALSE,
                   {flight.slots[n].body})
    /\ flight' = [slots |-> [flight.slots EXCEPT ![n] = NoSlot],
                  done  |-> [on |-> TRUE,
                             sawUser |-> flight.slots[n].sawUser,
                             sawSession |-> flight.slots[n].sawSession,
                             together |-> Together(n)]]

\* The state before new Server(...), to be explored as far as budget b
Fresh(b) ==
    /\ variant \in Variants
    /\ pc = "new"
    /\ stack = <<>>
    /\ limiter = [set |-> FALSE, windowMs |-> 0, max |-> 0]
    /\ requests = [ip \in Clients |-> Untracked]
    /\ now = 0
    /\ users = {} /\ sessions = {} /\ chats = {}
    /\ autoinc = [users |-> 0, sessions |-> 0, chats |-> 0]
    /\ timers = <<>>
    /\ priv = NoPriv
    /\ rl = NoCall
    /\ run = [ip \in Clients |-> NoRun]
    /\ last = NoRequest
    /\ hist = NoHist
    /\ boot = NoBoot
    /\ fault = NoFault
    /\ flight = NoFlight
    /\ budget = b

\* Concurrent user creation
RacePaths == {"/create", "/signup"}

InitRace == Fresh([chats |-> 0, users |-> MaxUsers, sessions |-> 0, ticks |-> 0])

NextRace ==
    \/ Startup
    \/ \E n \in Slots, path \in RacePaths : Arrive(n, path)
    \/ \E n \in Slots : Serve(n)

SpecRace == InitRace /\ [][NextRace]_vars

\* Concurrent session creation and claiming, for one user
SessionPaths == {"/invite", "/create", "/claim"}

InitSessions ==
    Fresh([chats |-> 0, users |-> SmallRows, sessions |-> MaxSessions, ticks |-> 0])

\* The user the sessions are created for signs up.
SignUp ==
    \E path \in RacePaths :
        /\ RequestWith("ip1", "post", path, FALSE,
                       {SampleBody(FieldsFor(variant, path))})
        /\ UNCHANGED flight

NextSessions ==
    \/ Startup
    \/ SignUp
    \/ \E n \in Slots, path \in SessionPaths : Arrive(n, path)
    \/ \E n \in Slots : Serve(n)

SpecSessions == InitSessions /\ [][NextSessions]_vars

\* --------------------------------------- every route and the timers together
\* A request to any path, with one body the route's schema accepts or with none
AnyRequest ==
    \E method \in Methods, path \in Paths :
        /\ RequestWith("ip1", method, path, FALSE,
                       IF method = "post"
                       THEN {SampleBody(FieldsFor(variant, path)), NoBody}
                       ELSE {NoBody})
        /\ UNCHANGED flight

NextLife ==
    \/ Startup
    \/ AnyRequest
    \/ TimerFires
    \/ Tick

SpecLife == Init /\ [][NextLife]_vars

\* ------------------------------- the chat routes beside users and sessions
InitInbox ==
    Fresh([chats |-> MaxChats, users |-> SmallRows, sessions |-> SmallRows,
           ticks |-> 0])

NextInbox ==
    \/ Startup
    \/ Fill
    \/ RequestFor(ChatPaths)

SpecInbox == InitInbox /\ [][NextInbox]_vars

\* ------------------------- the route listeners of both Server versions
\* modules/config's configuration on the Server of modules/server (assigned
\* by set config) and on the Server of part_004 (which has the same setters,
\* the callback being a constructor argument), then bind() and listen().
InitDispatch ==
    /\ variant = "config"
    /\ pc = "new"
    /\ stack = <<>>
    /\ limiter = [set |-> FALSE, windowMs |-> 0, max |-> 0]
    /\ requests = [ip \in Clients |-> Untracked]
    /\ now = 0
    /\ users = {} /\ sessions = {} /\ chats = {}
    /\ autoinc = [users |-> 0, sessions |-> 0, chats |-> 0]
    /\ timers = <<>>
    /\ priv \in {[NoPriv EXCEPT !.server = s] : s \in Servers}
    /\ rl = NoCall
    /\ run = [ip \in Clients |-> NoRun]
    /\ last = NoRequest
    /\ hist = NoHist
    /\ boot = NoBoot
    /\ fault = NoFault
    /\ flight = NoFlight
    /\ budget = [chats |-> SmallRows, users |-> SmallRows, sessions |-> SmallRows,
                 ticks |-> 0]

NextDispatch ==
    \/ Constructor
    \/ SetConfig
    \/ Bind
    \/ Listen
    \/ RequestFor(Paths)

SpecDispatch == InitDispatch /\ [][NextDispatch]_vars

\* ------------------------------- more than one assignment to server.endpoints
MaxAssign == 2

\* Route tables a program may assign to server.endpoints: the table of
\* index.js and two parts of it
EndpointTables ==
    {endpoints("index"), SubSeq(endpoints("index"), 1, 1),
     SubSeq(endpoints("index"), 2, 4)}

\* The number of catch-all layers registered so far
CatchAlls == Cardinality({i \in DOMAIN stack : stack[i].kind = "catchall"})

\* server.endpoints = data of custom_modules/server, any number of times
\* before listen: #bindEndpoints = data, then #bind() registers one layer per
\* route of data and one more catch-all.
SetEndpointsTo(data) ==
    /\ pc \in {"endpoints", "listen"}
    /\ CatchAlls < MaxAssign
    /\ priv' = [priv EXCEPT !.endpoints = TRUE]
    /\ stack' = stack \o data \o <<afterware(variant)>>
    /\ pc' = "listen"
    /\ UNCHANGED limiter
    /\ Frame

InitAssign == Init /\ variant = "index"

AssignPaths == {"/", "/send", "/user", "/nope"}

NextAssign ==
    \/ Constructor
    \/ \E data \in EndpointTables : SetEndpointsTo(data)
    \/ Listen
    \/ RequestFor(AssignPaths)

SpecAssign == InitAssign /\ [][NextAssign]_vars

\* C1: after exactly one successful /send for key k, the first /receive for k
\* handled before the 60 seconds of that send are over answers 200 with that
\* chat's content, and every later /receive for k answers 404.
C1_ClaimOnce ==
    (last.via = "route" /\ last.handler = "receive" /\ last.valid
        /\ last.pre.sent = 1) =>
      /\ (last.pre.recv = 0 /\ last.pre.inTime =>
            /\ last.status = 200
            /\ {c.content : c \in last.rows} = {last.pre.content})
      /\ (last.pre.recv > 0 => last.status = 404)

\* C2: when the timer of the only /send for key k has fired with no /receive
\* for k handled before it, every /receive for k handled afterwards answers
\* 404, whatever the content sent.
C2_TimeoutEviction ==
    (last.via = "route" /\ last.handler = "receive" /\ last.valid
        /\ last.pre.sent = 1 /\ last.pre.expired = "unclaimed") =>
      last.status = 404

\* C3: after a session was created for key k, the first /claim for k answers
\* 200 and every later /claim for k answers 404 until a new session is created
\* for k.
C3_SingleClaim ==
    (last.via = "route" /\ last.handler = "claim" /\ last.valid) =>
      /\ (last.pre.sess = "fresh" => last.status = 200)
      /\ (last.pre.sess = "claimed" => last.status = 404)

C3_Witness ==
    /\ last.via = "route" /\ last.handler = "claim" /\ last.valid
    /\ last.pre.sess = "claimed"
    /\ last.status = 404

\* C4: a valid user-creation request for an identifier not yet in the users
\* table answers with a success status and the generated user id; for an
\* identifier already there it answers 409 and inserts no row.
C4_Conflict ==
    (last.via = "route" /\ last.handler = "create" /\ last.valid) =>
      /\ (~last.pre.created =>
            /\ last.status \in {200, 201}
            /\ \E u \in users :
                  u.id = last.userId /\ u.identifier = last.identifier)
      /\ (last.pre.created => last.status = 409 /\ ~last.changed)

\* C5: a client with no tracked entry that sends requests all within windowMs
\* of the first one has its first max calls forwarded (next() called, no 429)
\* and every further call answered 429 with X-RateLimit-Remaining 0 and no
\* next().
C5_Boundary ==
    (rl.called /\ rl.inRun) =>
        /\ (rl.n <= limiter.max => rl.next /\ rl.status # 429)
        /\ (rl.n > limiter.max =>
                rl.status = 429 /\ rl.remaining = 0 /\ ~rl.next)

C5_Witness ==
    /\ rl.called /\ rl.inRun
    /\ rl.n = limiter.max + 1
    /\ rl.status = 429
    /\ limiter.max = MaxLimit

\* C6: a request of a tracked client handled at a time more than windowMs
\* after its windowStart is forwarded and leaves that client at {count: 1,
\* windowStart: now}, whatever was counted before; a rejected request leaves
\* windowStart where it was.
C6_Rollover ==
    /\ (rl.called /\ rl.pre.tracked
            /\ rl.t - rl.pre.timestamp > limiter.windowMs) =>
          /\ rl.next /\ rl.status # 429
          /\ requests[rl.ip] = [tracked |-> TRUE, count |-> 1, timestamp |-> rl.t]
    /\ (rl.called /\ rl.status = 429) =>
          /\ rl.pre.tracked
          /\ requests[rl.ip].timestamp = rl.pre.timestamp

C6_Witness ==
    /\ rl.called /\ rl.pre.tracked
    /\ rl.pre.count > limiter.max
    /\ rl.t - rl.pre.timestamp > limiter.windowMs
    /\ rl.next

\* C7: a request whose (method, path) is not in the route table, and which
\* no limiter has rejected, is answered 405 {error: "Method Not Allowed"} by
\* the catch-all and reaches no route handler.
C7_Unmatched ==
    (last.via \notin {"none", "limiter", "extlimiter"} /\ ~last.inTable) =>
      /\ last.via = "catchall"
      /\ last.status = 405
      /\ last.error = "Method Not Allowed"

\* C8: a route handler whose schema rejects the body answers 400 with the
\* "Invalid request" envelope.
C8_Validation400 ==
    (last.via = "route" /\ ~last.valid) =>
      last.status = 400 /\ last.error = "Invalid request"

\* C9: a request whose body the handler's schema rejects leaves the users,
\* sessions and chats tables and the pending timers as they were.
C9_RejectedNoEffect ==
    (last.via = "route" /\ ~last.valid) => ~last.changed

C9_Witness ==
    /\ last.via = "route" /\ ~last.valid
    /\ last.handler = "create"
    /\ users # {} /\ chats # {} /\ timers # <<>>

\* C10: once the rate limiter is installed, no route handler and no catch-all
\* answers a request that CustomRateLimiter.rateLimit has not counted and
\* forwarded.
C10_LimiterFirst ==
    (limiter.set /\ last.via \in {"route", "catchall"}) =>
      last.limited /\ rl.called /\ rl.next

\* C15: every call of rateLimit, forwarded or rejected, sets X-RateLimit-Limit
\* to max and X-RateLimit-Remaining to max(0, max - count) for the client's
\* updated count; Remaining is never negative and is max - k for the k-th
\* request of a window while k <= max.
C15_Headers ==
    rl.called =>
      /\ rl.limit = limiter.max
      /\ rl.remaining >= 0
      /\ rl.remaining = (IF requests[rl.ip].count < limiter.max
                         THEN limiter.max - requests[rl.ip].count ELSE 0)
      /\ (rl.inRun /\ rl.n <= limiter.max => rl.remaining = limiter.max - rl.n)

C15_Witness ==
    /\ rl.called /\ ~rl.next
    /\ requests[rl.ip].count = limiter.max + MaxOver
    /\ rl.remaining = 0 /\ rl.limit = limiter.max

\* C18: every sessions row has the userId of an existing users row, and a
\* session that a request has just created belongs to the user whose
\* identifier that request supplied.
C18_SessionOwner ==
    /\ \A s \in sessions : \E u \in users : u.id = s.userId
    /\ (last.via = "route" /\ last.handler = "invite" /\ last.status = 201) =>
          \E s \in sessions, u \in users :
              /\ s.key = last.key
              /\ u.id = s.userId
              /\ u.identifier = last.identifier

C18_Witness ==
    /\ variant = "index"
    /\ last.via = "route" /\ last.handler = "invite" /\ last.status = 201
    /\ Cardinality(users) = 2
    /\ Cardinality(sessions) = 2

\* C11: whatever tables and rows the database file holds at process start, by
\* the time the first HTTP request is handled the three tables exist and hold
\* no rows.
C11_ResetThenProvision ==
    boot.served =>
      /\ boot.exists = Tables
      /\ users = {} /\ sessions = {} /\ chats = {}

\* C12: executing the three CREATE TABLE IF NOT EXISTS statements again after
\* they have succeeded once raises no error and leaves the tables, their
\* columns and their rows as they were.
C12_IdempotentSetup ==
    boot.again.ran =>
      /\ ~boot.again.error
      /\ Store = boot.again.before

C12_Witness ==
    /\ boot.again.ran
    /\ boot.again.before.exists = Tables
    /\ boot.again.before.rows # [users |-> {}, sessions |-> {}, chats |-> {}]

\* C13: when a storage call of a handler throws, the client gets status 500,
\* or 409 when the error carries the recognised constraint code.
C13_FailureMapping ==
    fault.where = "handler" =>
      \/ fault.client = 500
      \/ fault.client = 409 /\ fault.code = "SQLITE_CONSTRAINT"

\* C14: a storage exception raised while a request is served or while a
\* deferred chat deletion runs never leaves the handler or the timer callback
\* uncaught.
C14_NothingEscapes ==
    fault.where # "" => ~fault.uncaught

\* C16: the users table never holds two rows with the same identifier, also
\* when several requests carrying the same identifier are in flight together.
C16_UniqueIdentifier ==
    \A u1 \in users, u2 \in users : u1.identifier = u2.identifier => u1.id = u2.id

C16_Witness ==
    /\ last.via = "route" /\ last.handler = "create"
    /\ last.status \in {200, 201}
    /\ flight.done.on /\ flight.done.together
    /\ \E u \in users : u.identifier = last.identifier

\* C17: the sessions table never holds two rows with the same key, however
\* session-creation and /claim requests interleave.
C17_UniqueKey ==
    \A s1 \in sessions, s2 \in sessions : s1.key = s2.key => s1.id = s2.id

C17_Witness ==
    /\ last.via = "route" /\ last.handler = "invite"
    /\ last.status = 409 /\ last.error = "Conflict"
    /\ flight.done.on /\ ~flight.done.sawSession
    /\ Cardinality(sessions) = 2

\* C19: after startup the users table only grows, and only by a successful
\* user-creation request; no other request and no timer callback changes it.
C19_UsersPermanent ==
    [][/\ users \subseteq users'
       /\ users' # users =>
             /\ last'.via = "route" /\ last'.handler = "create"
             /\ last'.status \in {200, 201}
             /\ Cardinality(users') = Cardinality(users) + 1]_vars

C19_Witness ==
    /\ users # {}
    /\ hist.expired["a"] # "no"
    /\ last.via = "route" /\ last.handler = "user" /\ last.status = 200

\* C20 (amended): a user-creation request that was in flight while another
\* request inserted its identifier finds that row in its existence check,
\* answers 409 and attempts no insert: the check and the insert of one request
\* are never separated by another request's handling.
C20_NoRace ==
    (last.via = "route" /\ last.handler = "create" /\ last.valid
        /\ flight.done.on /\ ~flight.done.sawUser /\ last.pre.created) =>
      last.status = 409 /\ ~last.changed

C20_Witness ==
    /\ last.via = "route" /\ last.handler = "create" /\ last.valid
    /\ flight.done.on /\ ~flight.done.sawUser /\ last.pre.created
    /\ last.status = 409
    /\ Cardinality(users) = 1

\* C20 (as stated): of two user-creation requests with the same identifier
\* that are in flight together, the one handled second also sees no row in
\* its existence check and attempts the insert.
C20_BothPass ==
    (last.via = "route" /\ last.handler = "create" /\ last.valid
        /\ flight.done.on /\ ~flight.done.sawUser /\ last.pre.created) =>
      last.status \in {200, 201} /\ last.changed

\* C21: a chat row leaves the chats table only in the step that handles a
\* /receive for its key or in the step that runs the timer scheduled by the
\* /send that created it; no other timer's firing removes it.
C21_OwnRemoval ==
    [][\A c \in chats \ chats' :
          IF Len(timers') < Len(timers)
          THEN Head(timers).id = c.id
          ELSE /\ last'.via = "route" /\ last'.handler = "receive"
               /\ last'.valid /\ last'.key = c.key]_vars

\* The pending timers are those of the most recent successful sends, one
\* each and in order, none due later than 60 seconds from now.
C22_Pending ==
    \A i \in 1..Len(timers) :
        /\ timers[i].id = autoinc.chats - Len(timers) + i
        /\ timers[i].due <= now + ChatTimeoutMs

\* C22 (amended): a step in which the INSERT of a /send succeeds appends
\* exactly one timer, due 60 seconds later; every other request step leaves
\* the pending timers as they are, also a /receive of the chat; a timer
\* leaves the pending ones only by firing, once, not before its 60 seconds
\* are over. So every successful send of the last 60 seconds has its timer
\* pending, and a pending timer belongs to a later send than every fired one.
C22_TimerScheduling ==
    [][/\ \/ /\ autoinc.chats' = autoinc.chats + 1
              /\ last'.via = "route" /\ last'.handler = "send"
              /\ last'.status = 200
              /\ Len(timers') = Len(timers) + 1
              /\ SubSeq(timers', 1, Len(timers)) = timers
              /\ timers'[Len(timers')].id = autoinc.chats'
              /\ timers'[Len(timers')].due = now + ChatTimeoutMs
           \/ /\ autoinc.chats' = autoinc.chats
              /\ \/ timers' = timers
                 \/ /\ timers # <<>>
                    /\ timers' = Tail(timers)
                    /\ Head(timers).due <= now
       /\ C22_Pending']_vars

C22_Witness ==
    /\ autoinc.chats = 2
    /\ Len(timers) = 1
    /\ \E k \in KeyVals : hist.expired[k] = "claimed"

\* C22 (as stated): the pending timers are exactly those of the successful
\* sends of the last 60 seconds, so no pending timer is older than that.
C22_SendsOfLastMinute ==
    \A i \in 1..Len(timers) :
        /\ timers[i].id = autoinc.chats - Len(timers) + i
        /\ now <= timers[i].due

\* C23: the step that handles a valid /receive for key k answers 404 and
\* leaves the chats table as it is when no row has key k; otherwise it answers
\* 200 with exactly the rows of key k and removes exactly those rows. The
\* users and sessions tables stay as they are.
C23_ReceiveFrame ==
    [][(/\ timers' = timers /\ now' = now
        /\ last'.via = "route" /\ last'.handler = "receive" /\ last'.valid) =>
          LET mine == {c \in chats : c.key = last'.key} IN
          /\ mine = {} => last'.status = 404 /\ chats' = chats
          /\ mine # {} =>
                /\ last'.status = 200
                /\ last'.rows = mine
                /\ chats' = chats \ mine
          /\ users' = users /\ sessions' = sessions]_vars

C23_Witness ==
    /\ last.via = "route" /\ last.handler = "receive" /\ last.status = 200
    /\ chats # {} /\ users # {} /\ sessions # {}
    /\ \A c \in chats : c.key # last.key

\* C24: the step that handles a valid session-creation request answers 201
\* and inserts one sessions row for the key exactly when no session has that
\* key and a user has the identifier sent (and, where a userId is sent, has
\* that id too); otherwise it answers 409 and leaves the sessions table as it
\* is.
C24_SessionPreconditions ==
    [][(/\ pc = "listening"
        /\ last'.via = "route" /\ last'.handler = "invite" /\ last'.valid) =>
          LET free  == \A s \in sessions : s.key # last'.key
              owner == {u \in users :
                          /\ u.identifier = last'.identifier
                          /\ variant # "config" => u.id = last'.sentUserId}
          IN IF free /\ owner # {}
             THEN /\ last'.status = 201
                  /\ \E s \in sessions' \ sessions :
                        /\ sessions' = sessions \cup {s}
                        /\ s.key = last'.key
                        /\ \E u \in owner : s.userId = u.id
             ELSE last'.status = 409 /\ sessions' = sessions]_vars

\* a 409 for a free key whose identifier exists under another id, then a 201
C24_Witness ==
    /\ variant = "index"
    /\ last.via = "route" /\ last.handler = "invite" /\ last.status = 409
    /\ last.error = "Invalid session."
    /\ last.sentUserId # 0
    /\ \E u \in users : u.identifier = last.identifier /\ u.id # last.sentUserId
    /\ sessions # {}

\* C25: for every client, the calls forwarded (next() invoked) within any
\* interval of length windowMs number at most 2 * max: at every call, the
\* forwarded calls of that client in the windowMs before it, itself included.
C25_BurstBound ==
    \A c \in Clients : Forwarded(rl.recent[c]) <= 2 * limiter.max

\* the burst across a window boundary that comes closest to the bound
C25_Witness ==
    /\ rl.called /\ rl.next
    /\ limiter.max = MaxLimit
    /\ Forwarded(rl.recent[rl.ip]) = 2 * limiter.max - 1
    /\ \E i \in 1..Len(rl.recent[rl.ip]) :
          rl.recent[rl.ip][i].next /\ rl.recent[rl.ip][i].t < rl.t

\* C26: every call of rateLimit is decided (forwarded or rejected) and gets
\* the X-RateLimit-Remaining value that the same limiter without
\* cleanupOldRequests gives to the same sequence of calls, also when the clock
\* moves between the two clock reads of a call.
C26_LazyEviction ==
    rl.called =>
      /\ rl.next = rl.plainNext
      /\ rl.remaining = rl.plainRemaining
      /\ \A c \in Clients : requests[c].tracked => requests[c] = rl.plain[c]

\* the caller's stale entry survived the first clock read, and another
\* client's stale entry was evicted
C26_Witness ==
    /\ rl.called /\ rl.pre.tracked
    /\ rl.t - rl.pre.timestamp = limiter.windowMs + 1
    /\ rl.pre.count > limiter.max
    /\ \E c \in Clients \ {rl.ip} : rl.plain[c].tracked /\ ~requests[c].tracked

\* C27 (amended): right after a call of rateLimit every entry of the map has
\* count >= 1 and a window that was not over at the clock value read by
\* cleanupOldRequests, and the caller's entry one that is not over at the
\* clock value read by rateLimit itself; a step that is no call of rateLimit
\* leaves the map as it is, stale entries included.
C27_Freshness ==
    [][/\ requests' # requests =>
            /\ \A c \in Clients : requests'[c].tracked =>
                  /\ requests'[c].count >= 1
                  /\ now - requests'[c].timestamp <= limiter.windowMs
            /\ requests'[rl'.ip].tracked
            /\ now' - requests'[rl'.ip].timestamp <= limiter.windowMs
       /\ rl' = rl => requests' = requests]_vars

\* another client's entry, exactly windowMs old at the first clock read, is
\* still in the map after a call whose second clock read is later
C27_Witness ==
    /\ rl.called /\ now = rl.t
    /\ \E c \in Clients \ {rl.ip} :
          /\ requests[c].tracked
          /\ rl.t - requests[c].timestamp = limiter.windowMs + 1

\* C27 (as stated): right after rateLimit has processed a request at time
\* now, every entry of the map satisfies now - windowStart <= windowMs and
\* count >= 1.
C27_FreshAtNow ==
    (rl.called /\ now = rl.t) =>
      \A c \in Clients : requests[c].tracked =>
          /\ requests[c].count >= 1
          /\ rl.t - requests[c].timestamp <= limiter.windowMs

\* C28: after every call of rateLimit the count of each tracked client is the
\* number of its calls, forwarded or rejected, since its windowStart; and a
\* call of client A leaves the entry of every other client B as it is, or
\* removes it when B's window was over at the clock read of
\* cleanupOldRequests.
C28_Accounting ==
    [][requests' # requests =>
         /\ \A c \in Clients : requests'[c].tracked =>
               requests'[c].count =
                 Cardinality({i \in 1..Len(rl'.recent[c]) :
                                 rl'.recent[c][i].t >= requests'[c].timestamp})
         /\ \A b \in Clients \ {rl'.ip} :
               \/ requests'[b] = requests[b]
               \/ /\ requests[b].tracked /\ requests'[b] = Untracked
                  /\ now - requests[b].timestamp > limiter.windowMs]_vars

\* a rejected call of one client evicts the stale entry of another
C28_Witness ==
    /\ rl.called /\ ~rl.next /\ now = rl.t
    /\ requests[rl.ip].count > limiter.max
    /\ \E b \in Clients \ {rl.ip} : rl.plain[b].tracked /\ ~requests[b].tracked
    /\ \E i \in 1..Len(rl.recent[rl.ip]) : rl.recent[rl.ip][i].t < rl.t

\* C29: in the modules/config wiring every request that gets an answer,
\* also a 429 of the rate limiter and the catch-all's answer, has passed
\* through every middleware step, and through all of them before the rate
\* limiter.
C29_MiddlewareFirst ==
    (variant = "config" /\ last.via # "none") =>
      /\ \A i \in 1..Len(middleware("config")) :
            \E j \in 1..Len(last.passed) :
                last.passed[j] = middleware("config")[i].name
      /\ \A i \in 1..Len(last.passed), j \in 1..Len(last.passed) :
            (last.passed[i] = ExtLimiterLayer.name
                /\ last.passed[j] # ExtLimiterLayer.name) => j < i

C36_ReadOnly ==
    [][(/\ last'.via = "route" /\ last'.handler \in {"root", "user"}
        /\ now' = now /\ Len(timers') >= Len(timers)) =>
          /\ users' = users /\ sessions' = sessions /\ chats' = chats
          /\ timers' = timers]_vars

C36_Witness ==
    /\ last.via = "route" /\ last.handler = "root" /\ last.status = 200
    /\ users # {} /\ sessions # {} /\ chats # {} /\ timers # <<>>
    /\ hist.created["i1"]

\* The statements of one parseExec call, in the order they were executed
C33_Ran(call) == SelectSeq(boot.log, LAMBDA e : e.call = call)

\* C33: within one parseExec call the statements run in array order, one
\* after the other; after a statement that throws no later statement of the
\* array runs and the call's promise is rejected; the promise is resolved
\* exactly when the last statement has succeeded.
C33_SequentialFailFast ==
    \A call \in {"reset", "setup"} :
       LET ran == C33_Ran(call) IN
       /\ Len(ran) <= Len(Script(call))
       /\ \A n \in 1..Len(ran) :
             /\ ran[n].i = n
             /\ ~ran[n].ok => n = Len(ran)
       /\ (call \in boot.rejected) <=> (\E n \in 1..Len(ran) : ~ran[n].ok)
       /\ (call \in boot.resolved) <=>
             (Len(ran) = Len(Script(call)) /\ \A n \in 1..Len(ran) : ran[n].ok)
       /\ (pc = "booted" /\ boot.queue = <<>>) =>
             call \in boot.rejected \cup boot.resolved

C33_Witness ==
    /\ pc = "booted" /\ boot.queue = <<>>
    /\ "reset" \in boot.rejected
    /\ Len(C33_Ran("reset")) = 2
    /\ "setup" \in boot.resolved

\* C32: every DELETE of the reset call is executed before the first CREATE
\* TABLE of the setup call: in the order of execution no statement of the
\* reset call comes after a statement of the setup call.
C32_ResetBeforeSetup ==
    \A p, q \in DOMAIN boot.log :
       (boot.log[p].call = "setup" /\ boot.log[q].call = "reset") => q < p

\* C31: a request whose method and path are bound by some assigned route
\* table is handled by a route handler, never by the 405 catch-all.
C31_CatchAllLast ==
    \A i \in DOMAIN stack :
       (/\ stack[i].kind = "route" /\ last.via # "none"
        /\ last.method = stack[i].method /\ last.path = stack[i].path) =>
          last.via = "route"

\* C34: a handler writes exactly one response for its request, also when a
\* storage call throws: before the success response the catch block writes
\* the only one; after it (the DELETE of /receive and /claim) the client keeps
\* its 200 and the send of the catch block writes nothing.
C34_OneResponse ==
    fault.where = "handler" =>
      /\ fault.written = 1
      /\ fault.uncaught => fault.client = 200

C34_Witness ==
    /\ fault.where = "handler" /\ fault.handler = "claim" /\ variant = "config"
    /\ fault.nth = 3 /\ fault.uncaught /\ fault.written = 1
    /\ fault.client = 200

\* C35: every request that was received has a response once its handling is
\* over: a 429 of the rate limiter, the catch-all's answer, Express' 404, or
\* the answer of its route handler, whichever branch the handler took.
C35_Answered ==
    last.via # "none" => last.status # 0

====
